---- MODULE Spec2Model ----
\* Model of nestrun's process-pool scheduler (nestly/scripts/nestrun.py):
\* invoke(max_procs, data, json_files), worker, NestlyProcess, write_summary
\* and _terminate_procs, together with the child processes it starts.
EXTENDS Integers, Sequences, FiniteSets, TLC

\* ---------------------------------------------------------------- bounds
MaxJobs == 3        \* longest json_files list explored
MaxProcs == 2       \* largest max_procs explored

\* ------------------------------------------------------------- constants
None == -1          \* Python's None in the integer-valued fields
Alive == None       \* a child that has not exited yet has no wait status

MinProcs == 0 - 1
\* The pids the OS hands out; a pid is free again once its child is reaped.
Pids == 1..MaxProcs

\* What a job descriptor leads to when worker() runs on it.
JobKinds == {"ok", "badjson", "missingkey", "noexec"}

\* Raw 16-bit wait statuses a child can end with: clean exit 0, killed by
\* SIGTERM (signal number in the low byte), exit 1.
RawStatuses == {0, 15, 256}

VARIABLES
    max_procs,      \* invoke's first argument
    data,           \* the shared run-parameter dictionary
    json_files,     \* the input list, one job kind per descriptor path
    files_pos,      \* how many elements the iterator `files` has yielded
    running_procs,  \* dict pid -> index into all_procs (the shared object)
    all_procs,      \* list of NestlyProcess records
    children,       \* unreaped children of this process: pid -> Alive | raw status
    signalled,      \* pids that were sent SIGTERM
    attempts,       \* per pulled job, what worker() did
    summary_rows,   \* the data rows last written to the summary file
    summary_writes, \* how many times write_summary wrote the table
    clock,          \* datetime.datetime.now()
    waited,         \* the (pid, status) pairs os.wait() has returned, in order
    pc,             \* "fill" | "wait" | "returned" | "exited" | "crashed"
    exc             \* the exception that left invoke, if any

vars == <<max_procs, data, json_files, files_pos, running_procs, all_procs,
          children, signalled, attempts, summary_rows, summary_writes, clock,
          waited, pc, exc>>

\* ------------------------------------------------------------- helpers
RECURSIVE SeqsUpTo(_, _)
SeqsUpTo(S, n) ==
    IF n = 0 THEN {<<>>}
    ELSE LET shorter == SeqsUpTo(S, n - 1)
         IN shorter \cup {Append(s, x) : s \in {t \in shorter : Len(t) = n - 1}, x \in S}

EmptyMap == [p \in {} |-> 0]

MapPut(m, k, v) == [p \in (DOMAIN m) \cup {k} |-> IF p = k THEN v ELSE m[p]]

MapPop(m, k) == [p \in (DOMAIN m) \ {k} |-> m[p]]

\* ------------------------------------------------------- NestlyProcess
NestlyProcess(job, pid, now) ==
    [working_dir |-> job, pid |-> pid, return_code |-> None,
     start_time |-> now, end_time |-> None, status |-> "RUNNING"]

\* terminate that signals the child but leaves the record's status alone
terminate_keepsStatus(p, now) ==
    [p EXCEPT !.end_time = now]

terminate(p, now) ==
    [p EXCEPT !.end_time = now, !.status = "TERMINATED"]

\* complete with the two statuses swapped
complete_inverted(p, return_code, now) ==
    [p EXCEPT !.return_code = return_code,
              !.status = IF return_code = 0 THEN "FAILED" ELSE "COMPLETE",
              !.end_time = now]

complete(p, return_code, now) ==
    [p EXCEPT !.return_code = return_code,
              !.status = IF return_code = 0 THEN "COMPLETE" ELSE "FAILED",
              !.end_time = now]

running_time(p) ==
    IF p.end_time = None THEN None ELSE p.end_time - p.start_time

\* -------------------------------------------------------------- worker
\* Runs the generator up to its first yield (or to the exception / the end).
worker(d, kind) ==
    IF kind = "badjson"
    THEN [result |-> "ValueError", rendered |-> FALSE, log_opened |-> FALSE]
    ELSE IF kind = "missingkey"
    THEN [result |-> "KeyError", rendered |-> FALSE, log_opened |-> FALSE]
    ELSE IF d.dry_run
    THEN [result |-> "StopIteration", rendered |-> TRUE, log_opened |-> FALSE]
    ELSE IF kind = "noexec"
    THEN [result |-> "OSError", rendered |-> TRUE, log_opened |-> TRUE]
    ELSE [result |-> "yield", rendered |-> TRUE, log_opened |-> TRUE]

\* ------------------------------------------------------- write_summary
SummaryRow(p) ==
    [directory |-> p.working_dir, start_time |-> p.start_time,
     end_time |-> p.end_time, run_time |-> running_time(p),
     exit_status |-> p.return_code, result |-> p.status]

\* the rows written last record first
SummaryRows_reversed(procs) ==
    [i \in 1..Len(procs) |-> SummaryRow(procs[Len(procs) + 1 - i])]

SummaryRows(procs) ==
    [i \in 1..Len(procs) |-> SummaryRow(procs[i])]

write_summary ==
    IF ~data.summary_file
    THEN UNCHANGED <<summary_rows, summary_writes>>
    ELSE /\ summary_rows' = SummaryRows(all_procs)
         /\ summary_writes' = summary_writes + 1

\* ---------------------------------------------------- _terminate_procs
\* proc.terminate() for every value of the dictionary `pool`, in key order;
\* each call reads the clock once.
RECURSIVE TerminateAll(_, _, _, _)
TerminateAll(procs, pool, pids, now) ==
    IF pids = {} THEN procs
    ELSE LET pid == CHOOSE x \in pids : \A y \in pids : x <= y
         IN TerminateAll([procs EXCEPT ![pool[pid]] = terminate(@, now)],
                         pool, pids \ {pid}, now + 1)

\* _terminate_procs(pool), the records being `procs` and the clock `now`:
\* every pool member is signalled and marked, then sys.exit(1).
terminate_procs(procs, pool, now) ==
    /\ all_procs' = TerminateAll(procs, pool, DOMAIN pool, now)
    /\ signalled' = signalled \cup DOMAIN pool
    /\ clock' = now + Cardinality(DOMAIN pool)
    /\ pc' = "exited"
    /\ exc' = "SystemExit"

\* ----------------------------------------------------------------- Init
Init ==
    /\ max_procs \in MinProcs..MaxProcs
    /\ data \in [dry_run : BOOLEAN, stop_on_error : BOOLEAN, summary_file : BOOLEAN]
    /\ json_files \in SeqsUpTo(JobKinds, MaxJobs)
    /\ files_pos = 0
    /\ running_procs = EmptyMap
    /\ all_procs = <<>>
    /\ children = EmptyMap
    /\ signalled = {}
    /\ attempts = <<>>
    /\ summary_rows = <<>>
    /\ summary_writes = 0
    /\ clock = 0
    /\ waited = <<>>
    /\ pc = "fill"
    /\ exc = "none"

\* ------------------------------------------------------ invoke: filling
\* the loop test with <= for <
HasCapacity_offByOne == Cardinality(DOMAIN running_procs) <= max_procs

HasCapacity == Cardinality(DOMAIN running_procs) < max_procs

Exhausted == files_pos = Len(json_files)

NextResult == worker(data, json_files[files_pos + 1])

\* the pull with the iterator left where it was
Pull_noAdvance ==
    /\ pc = "fill"
    /\ HasCapacity
    /\ ~Exhausted
    /\ files_pos' = files_pos
    /\ attempts' = Append(attempts, NextResult)

Pull ==
    /\ pc = "fill"
    /\ HasCapacity
    /\ ~Exhausted
    /\ files_pos' = files_pos + 1
    /\ attempts' = Append(attempts, NextResult)

\* while-condition false: fall through to os.wait()
FillFull ==
    /\ pc = "fill"
    /\ ~HasCapacity
    /\ pc' = "wait"
    /\ UNCHANGED <<max_procs, data, json_files, waited, files_pos, running_procs,
                   all_procs, children, signalled, attempts, summary_rows,
                   summary_writes, clock, exc>>

\* files.next() raises StopIteration and nothing is running
FillExhaustedReturn ==
    /\ pc = "fill"
    /\ HasCapacity
    /\ Exhausted
    /\ DOMAIN running_procs = {}
    /\ write_summary
    /\ pc' = "returned"
    /\ UNCHANGED <<max_procs, data, json_files, waited, files_pos, running_procs,
                   all_procs, children, signalled, attempts, clock, exc>>

\* the break taken without looking at running_procs
FillExhaustedBreak_unchecked ==
    /\ pc = "fill"
    /\ HasCapacity
    /\ Exhausted
    /\ pc' = "wait"
    /\ UNCHANGED <<max_procs, data, json_files, waited, files_pos, running_procs,
                   all_procs, children, signalled, attempts, summary_rows,
                   summary_writes, clock, exc>>

\* files.next() raises StopIteration while children are running
FillExhaustedBreak ==
    /\ pc = "fill"
    /\ HasCapacity
    /\ Exhausted
    /\ DOMAIN running_procs # {}
    /\ pc' = "wait"
    /\ UNCHANGED <<max_procs, data, json_files, waited, files_pos, running_procs,
                   all_procs, children, signalled, attempts, summary_rows,
                   summary_writes, clock, exc>>

\* g.next() returned the NestlyProcess of a started child
LaunchStarted(pid) ==
    /\ Pull
    /\ NextResult.result = "yield"
    /\ pid \notin DOMAIN children
    /\ all_procs' = Append(all_procs, NestlyProcess(files_pos + 1, pid, clock))
    /\ running_procs' = MapPut(running_procs, pid, Len(all_procs) + 1)
    /\ children' = MapPut(children, pid, Alive)
    /\ clock' = clock + 1
    /\ UNCHANGED <<max_procs, data, json_files, waited, signalled, summary_rows,
                   summary_writes, pc, exc>>

\* g.next() raised StopIteration (dry run): continue
LaunchDryRun ==
    /\ Pull
    /\ NextResult.result = "StopIteration"
    /\ UNCHANGED <<max_procs, data, json_files, waited, running_procs, all_procs,
                   children, signalled, summary_rows, summary_writes, clock,
                   pc, exc>>

\* the failed launch falling into the else branch of the try
LaunchOSErrorSkip_appends ==
    /\ Pull
    /\ NextResult.result = "OSError"
    /\ ~data.stop_on_error
    /\ all_procs' = Append(all_procs, NestlyProcess(files_pos + 1, None, clock))
    /\ UNCHANGED <<max_procs, data, json_files, waited, running_procs,
                   children, signalled, summary_rows, summary_writes, clock,
                   pc, exc>>

\* g.next() raised OSError, stop_on_error unset: log and go round again
LaunchOSErrorSkip ==
    /\ Pull
    /\ NextResult.result = "OSError"
    /\ ~data.stop_on_error
    /\ UNCHANGED <<max_procs, data, json_files, waited, running_procs, all_procs,
                   children, signalled, summary_rows, summary_writes, clock,
                   pc, exc>>

\* g.next() raised OSError, stop_on_error set: _terminate_procs exits the
\* interpreter, the write_summary and return after it are not reached
LaunchOSErrorStop ==
    /\ Pull
    /\ NextResult.result = "OSError"
    /\ data.stop_on_error
    /\ terminate_procs(all_procs, running_procs, clock)
    /\ UNCHANGED <<max_procs, data, json_files, waited, running_procs, children,
                   summary_rows, summary_writes>>

\* g.next() raised ValueError (json.load) or KeyError (str.format): neither
\* is an OSError, so the exception leaves invoke
LaunchUncaught ==
    /\ Pull
    /\ NextResult.result \in {"ValueError", "KeyError"}
    /\ pc' = "crashed"
    /\ exc' = NextResult.result
    /\ UNCHANGED <<max_procs, data, json_files, waited, running_procs, all_procs,
                   children, signalled, summary_rows, summary_writes, clock>>

\* ------------------------------------------------------ invoke: waiting
\* os.wait() with no child process raises OSError(ECHILD)
WaitNoChild ==
    /\ pc = "wait"
    /\ DOMAIN children = {}
    /\ pc' = "crashed"
    /\ exc' = "OSError"
    /\ UNCHANGED <<max_procs, data, json_files, waited, files_pos, running_procs,
                   all_procs, children, signalled, attempts, summary_rows,
                   summary_writes, clock>>

\* the low byte taken for the exit status
ExitStatus_lowByte(status) == status % 256

\* status >> 8: the high byte of the 16-bit number
ExitStatus(status) == status \div 256

\* the stop_on_error test left out
Cancels_never(exit_status) == FALSE

\* the cancellation decided by the exit status alone
Cancels_ignoresFlag(exit_status) == exit_status # 0

Cancels(exit_status) == exit_status # 0 /\ data.stop_on_error

\* complete() called on the record of the lowest pid in the pool
Completed_lowestPid(pid) ==
    [all_procs EXCEPT ![running_procs[CHOOSE q \in DOMAIN running_procs :
                                         \A r \in DOMAIN running_procs : q <= r]] =
        complete(@, ExitStatus(children[pid]), clock)]

Completed(pid) ==
    [all_procs EXCEPT ![running_procs[pid]] =
        complete(@, ExitStatus(children[pid]), clock)]

\* os.wait() returns an exited child; its record is completed and, unless the
\* run is cancelled, the loop goes round
WakeContinue(pid) ==
    /\ pc = "wait"
    /\ pid \in DOMAIN children
    /\ children[pid] # Alive
    /\ ~Cancels(ExitStatus(children[pid]))
    /\ children' = MapPop(children, pid)
    /\ running_procs' = MapPop(running_procs, pid)
    /\ all_procs' = Completed(pid)
    /\ clock' = clock + 1
    /\ waited' = Append(waited, [pid |-> pid, status |-> children[pid]])
    /\ pc' = "fill"
    /\ UNCHANGED <<max_procs, data, json_files, files_pos, signalled,
                   attempts, summary_rows, summary_writes, exc>>

\* the cancellation run on the pool with the exited child still in it
WakeCancel_noPop(pid) ==
    /\ pc = "wait"
    /\ pid \in DOMAIN children
    /\ children[pid] # Alive
    /\ Cancels(ExitStatus(children[pid]))
    /\ children' = MapPop(children, pid)
    /\ running_procs' = running_procs
    /\ terminate_procs(Completed(pid), running_procs, clock + 1)
    /\ waited' = Append(waited, [pid |-> pid, status |-> children[pid]])
    /\ UNCHANGED <<max_procs, data, json_files, files_pos, attempts,
                   summary_rows, summary_writes>>

\* as above with a non-zero exit status under stop_on_error:
\* _terminate_procs on what is left in the pool, the break is not reached
WakeCancel(pid) ==
    /\ pc = "wait"
    /\ pid \in DOMAIN children
    /\ children[pid] # Alive
    /\ Cancels(ExitStatus(children[pid]))
    /\ children' = MapPop(children, pid)
    /\ running_procs' = MapPop(running_procs, pid)
    /\ terminate_procs(Completed(pid), MapPop(running_procs, pid), clock + 1)
    /\ waited' = Append(waited, [pid |-> pid, status |-> children[pid]])
    /\ UNCHANGED <<max_procs, data, json_files, files_pos, attempts,
                   summary_rows, summary_writes>>

\* ------------------------------------------------------- the environment
\* a started child ends with some raw wait status
ChildExit(pid, status) ==
    /\ pid \in DOMAIN children
    /\ children[pid] = Alive
    /\ children' = [children EXCEPT ![pid] = status]
    /\ UNCHANGED <<max_procs, data, json_files, waited, files_pos, running_procs,
                   all_procs, signalled, attempts, summary_rows,
                   summary_writes, clock, pc, exc>>

Next ==
    \/ FillFull
    \/ FillExhaustedReturn
    \/ FillExhaustedBreak
    \/ \E pid \in Pids : LaunchStarted(pid)
    \/ LaunchDryRun
    \/ LaunchOSErrorSkip
    \/ LaunchOSErrorStop
    \/ LaunchUncaught
    \/ WaitNoChild
    \/ \E pid \in Pids : WakeContinue(pid)
    \/ \E pid \in Pids : WakeCancel(pid)
    \/ \E pid \in Pids, status \in RawStatuses : ChildExit(pid, status)

Spec == Init /\ [][Next]_vars

\* The interpreter's exit code: 0 when invoke returns, 1 after sys.exit(1)
\* and after an exception nobody catches.
ExitCode == IF pc = "returned" THEN 0 ELSE 1

Finished == pc \in {"returned", "exited", "crashed"}

\* ------------------------------------------------------ derived notions
Records == 1..Len(all_procs)

RunningRecords == {i \in Records : all_procs[i].status = "RUNNING"}

Pool == {running_procs[pid] : pid \in DOMAIN running_procs}

Terminal(status) == status \in {"COMPLETE", "FAILED", "TERMINATED"}

Attempted == 1..Len(attempts)

OSErrorJobs == {j \in Attempted : attempts[j].result = "OSError"}

DescriptorErrorJobs == {j \in Attempted : attempts[j].result \in {"ValueError", "KeyError"}}

DryRunJobs == {j \in Attempted : attempts[j].result = "StopIteration"}

LaunchedJobs == {all_procs[i].working_dir : i \in Records}

\* ------------------------------------------------------------------ C1
\* C1: with max_procs >= 1, in every reachable state the pool holds at most
\* max_procs entries and at most max_procs records are RUNNING; while the
\* scheduler runs, the RUNNING records are exactly the records in the pool.
C1_PoolBounded ==
    max_procs >= 1 =>
        /\ Cardinality(DOMAIN running_procs) <= max_procs
        /\ Cardinality(RunningRecords) <= max_procs
        /\ (pc \in {"fill", "wait"} => RunningRecords = Pool)

C1_Witness ==
    /\ max_procs = 2
    /\ Cardinality(RunningRecords) = 2
    /\ pc = "wait"
    /\ ~Exhausted

\* ------------------------------------------------------------------ C2
NoFurtherJob ==
    /\ files_pos' = files_pos
    /\ attempts' = attempts
    /\ Len(all_procs') = Len(all_procs)
    /\ DOMAIN children' \subseteq DOMAIN children

\* the scheduler has seen a failure: a reaped child's record is FAILED or a
\* launch raised OSError
ObservedFailure ==
    \/ \E i \in Records : all_procs[i].status = "FAILED"
    \/ OSErrorJobs # {}

\* a child has ended with a non-zero exit status, reaped or not
ChildFailure ==
    \/ ObservedFailure
    \/ \E pid \in DOMAIN children :
          children[pid] # Alive /\ ExitStatus(children[pid]) # 0

\* C2 (as amended): with stop_on_error set, once os.wait has returned a child
\* with a non-zero exit status or a launch has failed with OSError, no further
\* job is pulled, no record is added and no process is started.
C2_NoJobAfterObservedFailure ==
    [][(data.stop_on_error /\ ObservedFailure) => NoFurtherJob]_vars

\* C2 (as stated): with stop_on_error set, once any child has exited with a
\* non-zero status or a launch has failed, no further job is pulled or launched.
C2_Original ==
    [][(data.stop_on_error /\ max_procs >= 1 /\ ChildFailure) => NoFurtherJob]_vars

C2_Witness ==
    /\ data.stop_on_error
    /\ pc = "exited"
    /\ \E i \in Records : all_procs[i].status = "FAILED"
    /\ ~Exhausted

\* ------------------------------------------------------------------ C3
\* C3: a run cancelled by stop_on_error produces a summary with one row for
\* every job launched before the cancellation, each in a terminal state, and
\* no row for any job that was not launched.
C3_Original ==
    (pc = "exited" /\ data.summary_file) =>
        /\ summary_writes = 1
        /\ {summary_rows[i].directory : i \in 1..Len(summary_rows)} = LaunchedJobs
        /\ Len(summary_rows) = Len(all_procs)
        /\ \A i \in 1..Len(summary_rows) : Terminal(summary_rows[i].result)

\* ------------------------------------------------------------------ C4
\* C4: with max_procs >= 1, a run that ends without stop_on_error
\* cancellation has written a summary whose number of rows is the number of
\* records created, which is the number of input files minus the jobs whose
\* descriptor, rendering or launch failed and minus the dry-run jobs; the
\* summary never has more rows than there are records.
C4_Original ==
    /\ Len(summary_rows) <= Len(all_procs)
    /\ (max_procs >= 1 /\ data.summary_file /\ pc \in {"returned", "crashed"}) =>
          /\ summary_writes = 1
          /\ Len(summary_rows) = Len(all_procs)
          /\ Len(all_procs) = Len(json_files)
                - Cardinality(OSErrorJobs \cup DescriptorErrorJobs)
                - Cardinality(DryRunJobs)

\* ------------------------------------------------------------------ C5
\* C5: with dry_run set no child is started, no record is created, the pool
\* stays empty, no log file is opened, and the run ends normally after
\* pulling and rendering every input job.
C5_Original ==
    data.dry_run =>
        /\ all_procs = <<>>
        /\ DOMAIN children = {}
        /\ DOMAIN running_procs = {}
        /\ \A j \in Attempted : ~attempts[j].log_opened
        /\ Finished =>
              /\ pc = "returned"
              /\ Exhausted
              /\ \A j \in Attempted : attempts[j].rendered

\* ------------------------------------------------------------------ C6
\* C6: a descriptor error (malformed JSON, missing template key) leaves the
\* job without pool entry and record, and with stop_on_error unset the
\* scheduler carries on to a normal end: no exception leaves the loop.
C6_Original ==
    \A j \in DescriptorErrorJobs :
        /\ j \notin LaunchedJobs
        /\ ~data.stop_on_error => (pc \in {"fill", "wait", "returned"} /\ exc = "none")

\* ------------------------------------------------------------------ C7
\* C7: with stop_on_error unset, the step in which a launch fails with
\* OSError leaves the pool, the records and the children as they were and
\* returns to the head of the filling loop.
C7_LaunchFailureSkipped ==
    [][(/\ ~data.stop_on_error
        /\ Len(attempts') = Len(attempts) + 1
        /\ attempts'[Len(attempts')].result = "OSError")
       => (/\ running_procs' = running_procs
           /\ all_procs' = all_procs
           /\ children' = children
           /\ files_pos' = files_pos + 1
           /\ pc' = "fill")]_vars

C7_Witness ==
    /\ ~data.stop_on_error
    /\ \E j \in OSErrorJobs : j < Len(attempts) /\ j \notin LaunchedJobs
    /\ DOMAIN running_procs # {}

\* ------------------------------------------------------------------ C8
\* C8: with max_procs <= 0 no child is launched and the scheduler never
\* reaches os.wait: the run is rejected before the loop.
C8_Original ==
    max_procs <= 0 => (all_procs = <<>> /\ DOMAIN children = {} /\ pc # "wait")

\* ------------------------------------------------------------------ C9
Cancelled == data.stop_on_error /\ ObservedFailure

\* C9: a finished run has exit code 0 unless it was cancelled, and exit code
\* 1 exactly when stop_on_error is set and a child exited non-zero or a
\* launch failed.
C9_Original ==
    Finished =>
        /\ (~Cancelled => (pc = "returned" /\ ExitCode = 0))
        /\ (ExitCode # 0 <=> Cancelled)

\* ----------------------------------------------------------------- C10
\* C10: every record is RUNNING iff end_time is unset, COMPLETE iff its exit
\* status is 0, FAILED iff its exit status is a non-zero number, and
\* TERMINATED only if it was in the pool when the cancellation ran.
C10_RecordInvariant ==
    \A i \in Records :
        LET p == all_procs[i] IN
        /\ p.status \in {"RUNNING", "COMPLETE", "FAILED", "TERMINATED"}
        /\ (p.status = "RUNNING" <=> p.end_time = None)
        /\ (p.status = "COMPLETE" <=> p.return_code = 0)
        /\ (p.status = "FAILED" <=> (p.return_code # None /\ p.return_code # 0))
        /\ (p.status = "TERMINATED" =>
              /\ pc = "exited"
              /\ p.return_code = None
              /\ p.pid \in signalled
              /\ p.pid \in DOMAIN running_procs
              /\ running_procs[p.pid] = i)

C10_Witness ==
    /\ \E i \in Records : all_procs[i].status = "COMPLETE"
    /\ \E i \in Records : all_procs[i].status = "FAILED"
    /\ \E i \in Records : all_procs[i].status = "TERMINATED"

\* ----------------------------------------------------------------- C11
\* C11: the cancellation signals exactly the processes that are in the pool
\* at that moment and marks their records TERMINATED with end_time set; the
\* child whose exit triggered it keeps its FAILED record and is not
\* signalled; the run ends with exit code 1 without reaping any signalled
\* child, and no record is left RUNNING. Before a cancellation nobody is
\* signalled.
C11_Cancellation ==
    /\ pc # "exited" => signalled = {}
    /\ pc = "exited" =>
          /\ signalled = DOMAIN running_procs
          /\ \A i \in Pool :
                all_procs[i].status = "TERMINATED" /\ all_procs[i].end_time # None
          /\ \A i \in Records \ Pool : all_procs[i].status \in {"COMPLETE", "FAILED"}
          /\ RunningRecords = {}
          /\ ExitCode = 1
          /\ DOMAIN children = signalled
          /\ (OSErrorJobs = {} =>
                /\ Len(waited) >= 1
                /\ waited[Len(waited)].pid \notin signalled
                /\ \E i \in Records \ Pool :
                      /\ all_procs[i].status = "FAILED"
                      /\ all_procs[i].pid = waited[Len(waited)].pid
                      /\ \A k \in Records : all_procs[k].end_time <= all_procs[i].end_time
                                            \/ k \in Pool)

\* a cancelled run whose signalled child is still running
C11_Witness ==
    /\ pc = "exited"
    /\ \E i \in Records : all_procs[i].status = "FAILED"
    /\ \E pid \in signalled : children[pid] = Alive
    /\ \E i \in Pool : all_procs[i].status = "TERMINATED"

\* ----------------------------------------------------------------- C12
\* C12: the summary is written at most once; a run that ends without
\* cancellation has written it exactly once; it is written only when the
\* input is exhausted and the pool is empty, every record being COMPLETE or
\* FAILED, and the run is over once it is written.
C12_Original ==
    /\ summary_writes <= 1
    /\ (Finished /\ ~Cancelled /\ data.summary_file) => summary_writes = 1
    /\ summary_writes >= 1 =>
          /\ pc = "returned"
          /\ Exhausted
          /\ DOMAIN running_procs = {}
          /\ DOMAIN children = {}
          /\ summary_rows = SummaryRows(all_procs)
          /\ \A i \in Records : all_procs[i].status \in {"COMPLETE", "FAILED"}

\* ----------------------------------------------------------------- C13
\* the jobs of the records, in list order
InLaunchOrder ==
    \A i, k \in Records : i < k => all_procs[i].working_dir < all_procs[k].working_dir

\* C13: jobs are pulled one by one in input order and never twice: the
\* iterator only moves forward by one, every pulled job is attempted once,
\* a new record is for the job just pulled, and the jobs of the records are
\* a strictly increasing subsequence of the input list.
C13_LaunchOrder ==
    /\ [](/\ files_pos <= Len(json_files)
          /\ Len(attempts) = files_pos
          /\ InLaunchOrder
          /\ \A i \in Records :
                /\ all_procs[i].working_dir \in 1..files_pos
                /\ json_files[all_procs[i].working_dir] = "ok")
    /\ [][/\ files_pos' \in {files_pos, files_pos + 1}
          /\ Len(all_procs') \in {Len(all_procs), Len(all_procs) + 1}
          /\ Len(all_procs') = Len(all_procs) + 1 =>
                /\ files_pos' = files_pos + 1
                /\ all_procs'[Len(all_procs')].working_dir = files_pos']_vars

\* three jobs launched with two slots, the second one having exited first
C13_Witness ==
    /\ max_procs = 2
    /\ Len(all_procs) = 3
    /\ all_procs[1].status = "RUNNING"
    /\ all_procs[2].status # "RUNNING"
    /\ all_procs[3].status = "RUNNING"

\* ----------------------------------------------------------------- C14
\* C14 (as stated): a record enters the summary list on wake, once its
\* process has exited: the list never holds a RUNNING record and is in the
\* order in which the processes exited.
C14_Original ==
    /\ RunningRecords = {}
    /\ \A i, k \in Records :
          (i < k /\ all_procs[i].end_time # None /\ all_procs[k].end_time # None)
             => all_procs[i].end_time < all_procs[k].end_time

\* C14 (as amended): a record enters the summary list at launch, RUNNING,
\* and is finalized in place on wake (the list does not grow then); the list
\* and the rows of the summary are in launch order; a written summary has no
\* RUNNING row.
C14_AppendedAtLaunch ==
    /\ [](/\ \A pid \in DOMAIN running_procs :
                /\ running_procs[pid] \in Records
                /\ all_procs[running_procs[pid]].pid = pid
          /\ \A i, k \in Records :
                i < k => all_procs[i].start_time < all_procs[k].start_time
          /\ summary_writes >= 1 =>
                /\ Len(summary_rows) = Len(all_procs)
                /\ \A i \in 1..Len(summary_rows) :
                      /\ summary_rows[i].result # "RUNNING"
                      /\ summary_rows[i].directory = all_procs[i].working_dir
                /\ \A i, k \in 1..Len(summary_rows) :
                      i < k => summary_rows[i].start_time < summary_rows[k].start_time)
    /\ [][/\ (\E pid \in DOMAIN children' : pid \notin DOMAIN children) =>
                /\ Len(all_procs') = Len(all_procs) + 1
                /\ all_procs'[Len(all_procs')].status = "RUNNING"
          /\ Len(waited') # Len(waited) => Len(all_procs') = Len(all_procs)]_vars

\* a written summary whose rows are not in the order of the exits
C14_Witness ==
    /\ summary_writes = 1
    /\ \E i, k \in 1..Len(summary_rows) :
          i < k /\ summary_rows[i].end_time > summary_rows[k].end_time

\* ----------------------------------------------------------------- C15
\* the steps of the control thread
Scheduler ==
    \/ FillFull
    \/ FillExhaustedReturn
    \/ FillExhaustedBreak
    \/ \E pid \in Pids : LaunchStarted(pid)
    \/ LaunchDryRun
    \/ LaunchOSErrorSkip
    \/ LaunchOSErrorStop
    \/ LaunchUncaught
    \/ WaitNoChild
    \/ \E pid \in Pids : WakeContinue(pid)
    \/ \E pid \in Pids : WakeCancel(pid)

\* The control thread keeps running, and every started child exits.
FairSpec ==
    /\ Spec
    /\ WF_vars(Scheduler)
    /\ \A pid \in Pids : WF_vars(\E status \in RawStatuses : ChildExit(pid, status))

\* C15: with max_procs >= 1 and stop_on_error unset, if every child exits,
\* the run eventually returns with the input exhausted, the pool empty and
\* every input job attempted once.
C15_Original ==
    (max_procs >= 1 /\ ~data.stop_on_error) =>
        <>(/\ pc = "returned"
           /\ Exhausted
           /\ DOMAIN running_procs = {}
           /\ Len(attempts) = Len(json_files))

\* ----------------------------------------------------------------- C16
\* C16: with max_procs >= 1, whenever the scheduler is in os.wait() the pool
\* is not empty, its members are the unreaped children, and the pool is full
\* or the input is exhausted.
C16_WaitOnlyWhenNeeded ==
    (max_procs >= 1 /\ pc = "wait") =>
        /\ DOMAIN running_procs # {}
        /\ DOMAIN children = DOMAIN running_procs
        /\ \/ Cardinality(DOMAIN running_procs) = max_procs
           \/ Exhausted

\* draining: waiting with a free slot because the input is exhausted
C16_Witness ==
    /\ max_procs = 2
    /\ pc = "wait"
    /\ Cardinality(DOMAIN running_procs) = 1
    /\ Exhausted
    /\ Len(waited) >= 1

\* ----------------------------------------------------------------- C17
\* the records finalized before record i
EndedBefore(i) ==
    {m \in Records : all_procs[m].end_time # None
                     /\ all_procs[m].end_time < all_procs[i].end_time}

\* C17: on each wake the record taken out of the pool and finalized is the
\* one whose pid os.wait returned, with the high byte of that child's status,
\* and with stop_on_error unset no other record changes; the k-th record to
\* be finalized carries what the k-th wait returned; in a returned run with
\* stop_on_error unset there is one record per job that started, COMPLETE or
\* FAILED by its own exit status alone.
C17_OwnRecordFinalized ==
    /\ [](/\ \A k \in 1..Len(waited) :
                \E i \in Records :
                   /\ all_procs[i].pid = waited[k].pid
                   /\ all_procs[i].return_code = waited[k].status \div 256
                   /\ all_procs[i].status =
                         (IF waited[k].status < 256 THEN "COMPLETE" ELSE "FAILED")
                   /\ Cardinality(EndedBefore(i)) = k - 1
          /\ (pc = "returned" /\ ~data.stop_on_error) =>
                /\ Len(waited) = Len(all_procs)
                /\ LaunchedJobs = {j \in 1..Len(json_files) :
                                      json_files[j] = "ok" /\ ~data.dry_run})
    /\ [][\A pid \in DOMAIN children :
             pid \notin DOMAIN children' =>
                LET i == running_procs[pid] IN
                /\ all_procs[i].pid = pid
                /\ all_procs[i].status = "RUNNING"
                /\ all_procs'[i].return_code = children[pid] \div 256
                /\ all_procs'[i].status # "RUNNING"
                /\ DOMAIN running_procs' = DOMAIN running_procs \ {pid}
                /\ waited' = Append(waited, [pid |-> pid, status |-> children[pid]])
                /\ ~data.stop_on_error =>
                      \A m \in Records \ {i} : all_procs'[m] = all_procs[m]]_vars

\* a returned run in which a later job ended first and with another result
C17_Witness ==
    /\ pc = "returned"
    /\ ~data.stop_on_error
    /\ \E i, k \in Records :
          /\ i < k
          /\ all_procs[i].end_time > all_procs[k].end_time
          /\ all_procs[i].status = "COMPLETE"
          /\ all_procs[k].status = "FAILED"

\* ----------------------------------------------------------------- C18
\* C18: with stop_on_error unset nobody is ever signalled and no record is
\* ever TERMINATED, and the wake on a child with a non-zero exit status
\* makes that child's record FAILED, takes that child alone out of the
\* pool, changes no other record and returns to the filling loop with the
\* input where it was, so that the remaining jobs are pulled next.
C18_FailureIsLocal ==
    /\ [](~data.stop_on_error =>
             /\ signalled = {}
             /\ \A i \in Records : all_procs[i].status # "TERMINATED"
             /\ pc # "exited")
    /\ [][\A pid \in DOMAIN children :
             (/\ ~data.stop_on_error
              /\ pid \notin DOMAIN children'
              /\ children[pid] >= 256) =>
                LET i == running_procs[pid] IN
                /\ all_procs'[i].status = "FAILED"
                /\ \A m \in Records \ {i} : all_procs'[m] = all_procs[m]
                /\ Len(all_procs') = Len(all_procs)
                /\ running_procs' = MapPop(running_procs, pid)
                /\ children' = MapPop(children, pid)
                /\ signalled' = signalled
                /\ files_pos' = files_pos
                /\ pc' = "fill"]_vars

\* a job launched after another one failed, next to a child that kept running
C18_Witness ==
    /\ ~data.stop_on_error
    /\ \E i, k, m \in Records :
          /\ all_procs[i].status = "FAILED"
          /\ all_procs[k].start_time > all_procs[i].end_time
          /\ all_procs[m].start_time < all_procs[i].end_time
          /\ all_procs[m].status = "RUNNING"

\* ----------------------------------------------------------------- C19
\* C19: a record is finalized once, by complete() (exit status set, out of
\* the pool) or by terminate() (no exit status, still in the pool), never by
\* both; a record in a terminal state never changes again, the list never
\* loses a record, and a record that is not in the pool does not enter it.
C19_TerminalAbsorbing ==
    /\ [](\A i \in Records :
             /\ all_procs[i].status = "TERMINATED" =>
                   (all_procs[i].return_code = None /\ i \in Pool)
             /\ all_procs[i].status \in {"COMPLETE", "FAILED"} =>
                   (all_procs[i].return_code # None /\ i \notin Pool)
             /\ all_procs[i].status = "RUNNING" =>
                   (all_procs[i].return_code = None /\ i \in Pool))
    /\ [][/\ Len(all_procs') >= Len(all_procs)
          /\ \A i \in Records :
                /\ Terminal(all_procs[i].status) => all_procs'[i] = all_procs[i]
                /\ i \notin Pool =>
                      \A pid \in DOMAIN running_procs' : running_procs'[pid] # i]_vars

\* a pid used again: the finished record of its first holder stays out of the
\* pool while the record of its second holder is in it
C19_Witness ==
    \E i, k \in Records :
        /\ i < k
        /\ all_procs[i].pid = all_procs[k].pid
        /\ Terminal(all_procs[i].status)
        /\ k \in Pool
        /\ i \notin Pool

\* ----------------------------------------------------------------- C20
\* C20: on each wake the raw status s is a 16-bit number and the recorded
\* exit status is its high byte; the record is FAILED iff s >= 256; a status
\* with a zero high byte, such as that of a child killed by a signal, gives
\* COMPLETE with exit status 0 and no cancellation even under stop_on_error,
\* while a non-zero high byte under stop_on_error cancels the run.
C20_HighByte ==
    [][\A pid \in DOMAIN children :
          pid \notin DOMAIN children' =>
             LET s == children[pid]
                 p == all_procs'[running_procs[pid]]
             IN /\ s \in 0..65535
                /\ 256 * p.return_code <= s
                /\ s < 256 * (p.return_code + 1)
                /\ (p.status = "FAILED" <=> s >= 256)
                /\ s < 256 =>
                      /\ p.status = "COMPLETE"
                      /\ p.return_code = 0
                      /\ pc' = "fill"
                      /\ signalled' = signalled
                /\ (s >= 256 /\ data.stop_on_error) => pc' = "exited"]_vars

\* a stop_on_error run that returned although a child was killed by a signal
C20_Witness ==
    /\ data.stop_on_error
    /\ pc = "returned"
    /\ \E k \in 1..Len(waited) :
          /\ waited[k].status = 15
          /\ \E i \in Records :
                /\ Cardinality(EndedBefore(i)) = k - 1
                /\ all_procs[i].status = "COMPLETE"
                /\ all_procs[i].return_code = 0

====
